---- MODULE Spec2Model ----
(***************************************************************************)
(* Multi-protocol on-chain quote aggregation and ranking engine            *)
(* (OnChainQuoteService, ZeroXQuoteService).                               *)
(*                                                                         *)
(* One run of simulateSwapsWithAmount(pools, inputAmount, tokenPair) is    *)
(* modelled as a state machine: the loop over the pool list, one quoter    *)
(* per protocol tag, the catch blocks of getQuoteForPoolWithAmount and of  *)
(* the loop, and the final calculateRankings / bestQuote assembly.         *)
(* The answers of the blockchain node and of the aggregator API are the    *)
(* nondeterministic inputs of each step.                                   *)
(***************************************************************************)
EXTENDS Integers, Sequences, FiniteSets, TLC

VARIABLES
    pools,        \* the pool list handed to simulateSwapsWithAmount
    inputAmount,  \* the exact input amount (bigint), here below 2^31
    pc,           \* "loop" | "quoting" | "done": position in simulateSwapsWithAmount
    current,      \* index of the pool whose quote is awaited (0: none)
    started,      \* history: indices of the pools whose quoting was started, in order
    quotes,       \* the local array quotes of simulateSwapsWithAmount
    outcomes,     \* history: how the protocol quoter of each pool ended, in order
    rankings,     \* SwapSimulation.rankings (<<>> until pc = "done")
    bestQuote,    \* SwapSimulation.bestQuote: <<>> for null, <<q>> for a quote
    frame,        \* locals of the protocol quoter call that settled last
    \* AlchemyRateLimiter (one shared instance)
    requestQueue, \* ids of the calls handed to execute and not yet started, FIFO
    processing,   \* processQueue is running
    requestCount, \* requests started in the current window
    windowStart,  \* Date.now() at the start of the current window (ms)
    now,          \* Date.now() (ms)
    lpc,          \* processQueue: "idle" | "request" | "backoff" | "timer" | "stuck"
    wake,         \* time at which the pending setTimeout fires
    cur,          \* the call inside executeWithRetry (id 0: none)
    last,         \* history: the call that settled last
    log,          \* history: times of the latest invocations of an underlying call
    issued,       \* history: number of calls of execute
    settled,      \* history: number of calls resolved or rejected
    signals,      \* history: number of rate-limit signals of the node
    firstInvoke   \* history: time of the first invocation (-1: none yet)

simVars == <<pools, inputAmount, pc, current, started, quotes, outcomes, rankings, bestQuote,
             frame>>

limiterVars == <<requestQueue, processing, requestCount, windowStart, now, lpc, wake, cur,
                 last, log, issued, settled, signals, firstInvoke>>

vars == <<simVars, limiterVars>>

(***************************************************************************)
(* Bounds of the model.                                                    *)
(***************************************************************************)
MaxPools == 2      \* longest pool list of one simulation run
MaxCalls == 3      \* calls of execute in one behaviour of the rate limiter
MaxSignals == 6    \* rate-limit signals the node sends in one behaviour
MaxClock == 1200   \* idle time passes only up to this clock value (ms)

(***************************************************************************)
(* bigint amounts.  TLC integers are 32 bits wide, a double has a 53 bit   *)
(* mantissa, so an amount is kept in two limbs: value = hi * 2^53 + lo     *)
(* with |lo| far below 2^52.  Amounts of the model have hi \in 0..1.       *)
(***************************************************************************)
Big(h, l) == [hi |-> h, lo |-> l]
Zero == Big(0, 0)
BigLT(a, b) == a.hi < b.hi \/ (a.hi = b.hi /\ a.lo < b.lo)
BigLE(a, b) == a = b \/ BigLT(a, b)
BigAdd(a, b) == Big(a.hi + b.hi, a.lo + b.lo)
BigSub(a, b) == Big(a.hi - b.hi, a.lo - b.lo)
BigMul(a, c) == Big(a.hi * c, a.lo * c)

RECURSIVE Pow10(_)
Pow10(n) == IF n = 0 THEN 1 ELSE 10 * Pow10(n - 1)

Max(a, b) == IF a > b THEN a ELSE b

\* spacing of the doubles around hi * 2^53 + lo (hi >= 1): 2^(floor(log2 hi) + 1)
RECURSIVE Ulp(_)
Ulp(h) == IF h < 2 THEN 2 ELSE 2 * Ulp(h \div 2)

\* IEEE-754 round-to-nearest, ties-to-even, of an integer to a double.
\* Below 2^53 every integer is a double; from 2^53 on the low limb is
\* rounded to a multiple of the spacing (2^53 / spacing is even, so the
\* parity of the mantissa is the parity of lo / spacing).
RoundToDouble(a) ==
    IF a.hi = 0 \/ a.lo < 0 THEN a
    ELSE LET u == Ulp(a.hi)
             q == a.lo \div u
             r == a.lo % u
             up == IF 2 * r > u THEN TRUE
                   ELSE IF 2 * r < u THEN FALSE
                   ELSE q % 2 = 1
         IN  Big(a.hi, (IF up THEN q + 1 ELSE q) * u)

\* parseFloat(q.outputAmount): outputAmount is the decimal string of a bigint
parseFloat(a) == RoundToDouble(a)

(***************************************************************************)
(* PoolInfo descriptors (tokens.base / tokens.quote are flattened to base  *)
(* and quote).  A token address is written as the token symbol; decimals   *)
(* differ by at most 3 so that 10^diff stays a 32-bit integer.             *)
(***************************************************************************)
NULL == "undefined"

Token(sym, dec) == [address |-> sym, symbol |-> sym, decimals |-> dec]

Pool(addr, nm, dex, fee, bsym, bdec, qsym, qdec) ==
    [address |-> addr, name |-> nm, dex |-> dex, fee_tier |-> fee,
     base |-> Token(bsym, bdec), quote |-> Token(qsym, qdec)]

FLUID_USDE_USDT == "0xf063bd202e45d6b2843102cb4ece339026645d4a"
CURVE_3POOL == "0xbebc44782c7db0a1a60cb6fe97d0b483032ff1c7"

\* the pools a caller may put in the list: at least one per protocol tag
Registry ==
    { Pool("0xv2", "USDC/USDT V2", "uniswap_v2", NULL, "USDC", 6, "USDT", 6),
      Pool("0xsushi", "USDC/USDT Sushi", "sushiswap", NULL, "USDC", 6, "USDT", 6),
      Pool("0xv3", "USDC/USDT 0.05%", "uniswap_v3", "500", "USDC", 6, "USDT", 6),
      Pool("0xv3custom", "USDC/USDT custom", "uniswap_v3", "200", "USDC", 6, "USDT", 6),
      Pool("0xv4", "USDe/USDT V4", "uniswap_v4", "63", "USDe", 9, "USDT", 6),
      Pool("0xcurve", "USDC/USDT Curve", "curve", NULL, "USDC", 9, "USDT", 6),
      Pool("0xbal", "USDC/DAI Balancer", "balancer", NULL, "USDC", 9, "DAI", 6),
      Pool(FLUID_USDE_USDT, "USDe/USDT Fluid 0.01%", "fluid", "100", "USDe", 9, "USDT", 6),
      Pool("zeroX-aggregator-usdc-usdt", "USDC/USDT Aggregator", "zerox", "variable", "USDC", 6, "USDT", 6),
      Pool("0xpancake", "USDC/USDT Pancake", "pancakeswap", "2500", "USDC", 6, "USDT", 6) }

InputAmounts == {1, 2000}

\* amounts a contract may answer: 0, a small one, and two neighbours above 2^53
OnChainAmounts == { Big(0, 0), Big(0, 2), Big(1, 0), Big(1, 1) }

(***************************************************************************)
(* Outcome of a protocol quoter: the bigint it returns or the Error it     *)
(* throws; swallowed is the message of an error the quoter caught and      *)
(* replaced by an estimate.                                                *)
(***************************************************************************)
NoError == NULL
Ok(a) == [threw |-> FALSE, amount |-> a, error |-> NoError, swallowed |-> NoError]
Throw(msg) == [threw |-> TRUE, amount |-> Zero, error |-> msg, swallowed |-> NoError]
Estimate(a, msg) == [threw |-> FALSE, amount |-> a, error |-> NoError, swallowed |-> msg]

\* what an awaited contract call (through alchemyRateLimiter.execute or
\* directly on the provider) settles with
CallResults == { Throw("call revert") } \cup { Ok(a) : a \in OnChainAmounts }


(***************************************************************************)
(* The answers of the outside world during the quoting of one pool.  Each  *)
(* step draws the fields its quoter reads; the others keep these defaults. *)
(***************************************************************************)
FAIL == "call failed"
DefaultEnv ==
    [ rpc |-> Throw("call revert"),      \* router / quoter call through the rate limiter
      read |-> Throw("call revert"),     \* v3 pool state read: Ok(liquidity) or thrown
      tick |-> 0,                        \* slot0().tick of the v3 pool state read
      trade |-> Throw("sdk error"),      \* v3 SDK Pool construction and Trade.exactIn
      code |-> FALSE,                    \* provider.getCode answered
      coins |-> <<FAIL, FAIL, FAIL>>,    \* the coins of the curve pool (FAIL: no such index)
      down |-> {},                       \* indices whose coins() call fails for another reason
      get_dy |-> Throw("call revert"),   \* curve get_dy
      impact |-> Throw("call revert"),   \* getCollateralReserves and the price-impact maths
      prices |-> "no_data",              \* how getPricesAndExchangePrices.staticCall ends
      live |-> [shape |-> "no_revert", amount |-> Zero],  \* how swapIn.staticCall ends
      zx |-> [answered |-> FALSE, liquidityAvailable |-> FALSE, buyAmount |-> Zero,
              zeroExFee |-> <<>>, fills |-> <<>>] ]  \* zeroXApi.getQuote

(***************************************************************************)
(* Constant-product quoter.                                                *)
(***************************************************************************)
\* amounts[1] of router.getAmountsOut, or the error of the call
getUniswapV2Quote(pool, amountIn, env) == env.rpc

(***************************************************************************)
(* v3-style concentrated-liquidity quoter.                                 *)
(***************************************************************************)
\* parseInt of a fee_tier string; -1 stands for NaN
parseInt(str) ==
    CASE str = "63" -> 63
      [] str = "100" -> 100
      [] str = "200" -> 200
      [] str = "500" -> 500
      [] str = "2500" -> 2500
      [] str = "3000" -> 3000
      [] str = "10000" -> 10000
      [] OTHER -> -1

V3_FEE_TIERS == {100, 500, 3000, 10000}

\* computePoolAddress: the CREATE2 address of (factory, token pair, fee)
computePoolAddress(tokenA, tokenB, fee) ==
    IF {tokenA.symbol, tokenB.symbol} = {"USDC", "USDT"} /\ fee = 500 THEN "0xv3"
    ELSE IF {tokenA.symbol, tokenB.symbol} = {"USDC", "USDT"} /\ fee = 3000 THEN "0xv3medium"
    ELSE "0xcomputed"

MIN_TICK == -887272
MAX_TICK == 887272

TICK_SPACINGS(feeAmount) ==
    CASE feeAmount = 100 -> 1
      [] feeAmount = 500 -> 10
      [] feeAmount = 3000 -> 60
      [] feeAmount = 10000 -> 200

Min(a, b) == IF a < b THEN a ELSE b

\* Math.round(a / b) for b > 0: halves go towards plus infinity
MathRound(a, b) == (2 * a + b) \div (2 * b)

\* nearestUsableTick of the SDK: rejects a tick outside [MIN_TICK, MAX_TICK],
\* else rounds to the spacing and steps back inside the bounds
nearestUsableTick(tick, tickSpacing) ==
    LET rounded == MathRound(tick, tickSpacing) * tickSpacing
    IN  IF tick < MIN_TICK \/ tick > MAX_TICK THEN [threw |-> TRUE, tick |-> 0]
        ELSE IF rounded < MIN_TICK THEN [threw |-> FALSE, tick |-> rounded + tickSpacing]
        ELSE IF rounded > MAX_TICK THEN [threw |-> FALSE, tick |-> rounded - tickSpacing]
        ELSE [threw |-> FALSE, tick |-> rounded]

\* the tick alignment block: the SDK helper, or the manual alignment of its catch
ValidTick(rawTick, tickSpacing) ==
    LET sdk == nearestUsableTick(rawTick, tickSpacing)
        aligned == MathRound(rawTick, tickSpacing) * tickSpacing
    IN  IF ~sdk.threw THEN [validTick |-> sdk.tick, manual |-> FALSE]
        ELSE [validTick |-> Max(MIN_TICK, Min(MAX_TICK, aligned)), manual |-> TRUE]

\* the locals of the alignment block, <<>> when the block is not reached
V3TickFrame(pool, env) ==
    LET fee == parseInt(IF pool.fee_tier = NULL THEN "3000" ELSE pool.fee_tier)
    IN  IF fee \in V3_FEE_TIERS
           /\ computePoolAddress(pool.base, pool.quote, fee) = pool.address
           /\ ~env.read.threw
        THEN <<[rawTick |-> env.tick, tickSpacing |-> TICK_SPACINGS(fee),
                validTick |-> ValidTick(env.tick, TICK_SPACINGS(fee)).validTick,
                manual |-> ValidTick(env.tick, TICK_SPACINGS(fee)).manual,
                liquidity |-> env.read.amount]>>
        ELSE <<>>

getUniswapV3Quote(pool, amountIn, env) ==
    LET fee == parseInt(IF pool.fee_tier = NULL THEN "3000" ELSE pool.fee_tier)
        addressesMatch == computePoolAddress(pool.base, pool.quote, fee) = pool.address
        \* Method 1, inside the inner try: state read, zero-liquidity check, SDK trade
        sdk == IF ~addressesMatch THEN Throw("address mismatch")
               ELSE IF env.read.threw THEN env.read
               ELSE IF env.read.amount = Zero THEN Throw("Pool has zero liquidity")
               ELSE env.trade
    IN  IF fee \notin V3_FEE_TIERS THEN Throw("Unsupported fee tier")
        ELSE IF ~sdk.threw THEN sdk
        \* Method 2: direct quoter call; its error is rethrown by the outer catch
        ELSE env.rpc

(***************************************************************************)
(* v4-style quoter with price-estimation fallback.                         *)
(***************************************************************************)
V4PoolConfigKeys ==
    { <<"WETH", "USDT">>, <<"USDT", "WETH">>, <<"UNI", "WETH">>, <<"WETH", "UNI">>,
      <<"WETH", "USDC">>, <<"USDC", "WETH">>, <<"USDe", "USDT">>, <<"USDT", "USDe">> }

\* TRUE when getV4PoolConfig returns a configuration (not null)
getV4PoolConfig(baseSymbol, quoteSymbol) ==
    LET normalizeSymbol(sym) == IF sym = "ETH" THEN "WETH" ELSE sym
    IN  <<normalizeSymbol(baseSymbol), normalizeSymbol(quoteSymbol)>> \in V4PoolConfigKeys

\* extractV3Fee: the number in front of "bps" in a pool name, 0 for null
extractV3Fee(poolName) ==
    CASE poolName = "USDC/USDT 5 bps" -> 5
      [] OTHER -> 0

V4FallbackPrices(sym) ==
    CASE sym \in {"WETH", "ETH"} -> 2650
      [] sym = "WBTC" -> 64000
      [] sym = "UNI" -> 8
      [] sym = "LINK" -> 11
      [] OTHER -> 1

\* floor(n * 10^e / d) for integers n, d > 0 and any exponent e
FloorScaled(n, e, d) ==
    IF e >= 0 THEN (n * Pow10(e)) \div d ELSE n \div (d * Pow10(-e))

getUniswapV4Quote(pool, amountIn, env) ==
    LET fee0 == extractV3Fee(pool.name)
        fee == IF fee0 # 0 THEN fee0
               ELSE parseInt(IF pool.fee_tier = NULL THEN "3000" ELSE pool.fee_tier)
        \* inputAmountFloat * priceRatio * feeRate * 10^quoteDecimals, floored
        estimatedOut ==
            FloorScaled(amountIn * V4FallbackPrices(pool.base.symbol) * (1000000 - fee),
                        pool.quote.decimals - pool.base.decimals,
                        V4FallbackPrices(pool.quote.symbol) * 1000000)
        failure == IF ~getV4PoolConfig(pool.base.symbol, pool.quote.symbol)
                   THEN "No V4 pool configuration found"
                   ELSE IF ~env.code THEN FAIL
                   ELSE IF env.rpc.threw THEN env.rpc.error
                   ELSE NoError
    IN  IF failure = NoError THEN Ok(env.rpc.amount)
        ELSE Estimate(Big(0, estimatedOut), failure)

(***************************************************************************)
(* Stable-swap quoter.                                                     *)
(***************************************************************************)
\* decimal-adjusted 1:1 conversion of the catch blocks
DecimalAdjusted(amount, decimalDiff) ==
    IF decimalDiff > 0 THEN amount * Pow10(decimalDiff)
    ELSE IF decimalDiff < 0 THEN amount \div Pow10(-decimalDiff)
    ELSE amount

\* the probing loop over coins(0..2): stops at the first index that fails
RECURSIVE CurveProbe(_, _, _, _, _)
CurveProbe(coins, pool, tokenIndex, i, j) ==
    IF tokenIndex >= 3 \/ coins[tokenIndex + 1] = FAIL THEN <<i, j>>
    ELSE CurveProbe(coins, pool, tokenIndex + 1,
                    IF coins[tokenIndex + 1] = pool.base.address THEN tokenIndex ELSE i,
                    IF coins[tokenIndex + 1] = pool.quote.address THEN tokenIndex ELSE j)

\* <<i, j>> handed to get_dy, or <<-1, -1>> when the inner catch rethrows
CurveIndices(pool, coins) ==
    LET ij == CurveProbe(coins, pool, 0, -1, -1)
    IN  IF ij[1] # -1 /\ ij[2] # -1 THEN ij
        ELSE IF pool.address = CURVE_3POOL THEN <<1, 0>>
        ELSE <<-1, -1>>

\* what the calls coins(0), coins(1), coins(2) answer: the coin, or FAIL
CoinsAnswered(env) ==
    [k \in 1..3 |-> IF (k - 1) \in env.down THEN FAIL ELSE env.coins[k]]

\* the indices of the get_dy call with the coins of the pool, <<>> when
\* get_dy is not reached
CurveFrame(pool, env) ==
    LET ij == CurveIndices(pool, CoinsAnswered(env))
    IN  IF ij = <<-1, -1>> THEN <<>>
        ELSE <<[i |-> ij[1], j |-> ij[2], coins |-> env.coins,
                probed |-> env.down = {}, get_dy |-> env.get_dy]>>

getCurveQuote(pool, amountIn, env) ==
    LET ij == CurveIndices(pool, CoinsAnswered(env))
        decimalDiff == pool.quote.decimals - pool.base.decimals
        amountOut == env.get_dy.amount
        \* Number(amountOut) > Number(inputAmount) * 10^decimalDiff * 1000
        unreasonable ==
            IF decimalDiff >= 0
            THEN BigLT(Big(0, amountIn * Pow10(decimalDiff) * 1000), parseFloat(amountOut))
            ELSE BigLT(Big(0, amountIn * 1000), BigMul(parseFloat(amountOut), Pow10(-decimalDiff)))
        fallback == Big(0, DecimalAdjusted(amountIn, decimalDiff))
    IN  IF ij = <<-1, -1>> THEN Estimate(fallback, "Could not find token indices")
        ELSE IF env.get_dy.threw THEN Estimate(fallback, env.get_dy.error)
        ELSE IF unreasonable THEN Ok(Big(0, amountIn * Pow10(Max(0, decimalDiff))))
        ELSE Ok(amountOut)

(***************************************************************************)
(* Weighted-pool quoter: decimal-adjusted 1:1 estimate.                    *)
(***************************************************************************)
getBalancerQuote(pool, amountIn) ==
    Ok(Big(0, DecimalAdjusted(amountIn, pool.quote.decimals - pool.base.decimals)))

(***************************************************************************)
(* Fluid quoter.                                                           *)
(***************************************************************************)
FluidFallbackPrices(sym) ==
    CASE sym \in {"WETH", "ETH"} -> 4700
      [] sym = "WBTC" -> 115000
      [] sym = "UNI" -> 18
      [] sym = "LINK" -> 25
      [] OTHER -> 1

Stablecoins == {"USDC", "USDT", "DAI", "USDe"}

\* decimals of a token descriptor that lacks the field (undefined): every
\* arithmetic on it is NaN
MissingDecimals == -1

FluidEstimateBranch(pool) ==
    LET isStablecoinPair == pool.base.symbol \in Stablecoins /\ pool.quote.symbol \in Stablecoins
        isNaN == MissingDecimals \in {pool.base.decimals, pool.quote.decimals}
    IN  IF isStablecoinPair THEN "stable"
        \* BigInt(Math.floor(NaN)) throws a RangeError inside the try block
        ELSE IF isNaN THEN "error"
        ELSE "volatile"

\* the catch block of getFluidEstimatedQuote: 1:1 with the basic fee; with a
\* NaN decimalDiff neither comparison holds and basicAmount is returned
FluidUltimateFallback(pool, amountIn) ==
    LET basicAmount == (amountIn * 9998) \div 10000
    IN  IF MissingDecimals \in {pool.base.decimals, pool.quote.decimals} THEN Big(0, basicAmount)
        ELSE Big(0, DecimalAdjusted(basicAmount, pool.quote.decimals - pool.base.decimals))

\* the try block of getFluidEstimatedQuote (rates in units of 1/10000)
FluidEstimateTry(pool, amountIn) ==
    LET decimalDiff == pool.quote.decimals - pool.base.decimals
        isNaN == MissingDecimals \in {pool.base.decimals, pool.quote.decimals}
        isStablecoinPair == pool.base.symbol \in Stablecoins /\ pool.quote.symbol \in Stablecoins
        \* BigInt(Math.floor(Number(inputAmount) * (1 - 0.0002)))
        feeAdjustedAmount == (amountIn * 9998) \div 10000
        basePrice == FluidFallbackPrices(pool.base.symbol)
        quotePrice == FluidFallbackPrices(pool.quote.symbol)
        \* swapSizeUSD > 100000 and > 1000000, swapSizeUSD = amountIn / 10^decimals * basePrice
        over100k == amountIn * basePrice > 100000 * Pow10(pool.base.decimals)
        over1M == amountIn * basePrice > 1000000 * Pow10(pool.base.decimals)
        slippageRate == IF over1M THEN 50 ELSE IF over100k THEN 10 ELSE 1
        totalFeeRate == 10000 - (1 + slippageRate)
    IN  IF isStablecoinPair
        THEN IF isNaN THEN Big(0, feeAdjustedAmount)
             ELSE Big(0, DecimalAdjusted(feeAdjustedAmount, decimalDiff))
        ELSE Big(0, FloorScaled(amountIn * basePrice * totalFeeRate, decimalDiff,
                                quotePrice * 10000))

\* getFluidEstimatedQuote: the try block, or the catch block when it throws
getFluidEstimatedQuote(pool, amountIn) ==
    IF FluidEstimateBranch(pool) = "error" THEN FluidUltimateFallback(pool, amountIn)
    ELSE FluidEstimateTry(pool, amountIn)

\* how a staticCall of getPricesAndExchangePrices ends: it returns, or it reverts
\* without data, with another error whose payload is shorter than nine words,
\* with another error of at least nine words, or with the price payload
PriceReverts == {"no_revert", "no_data", "short_error", "long_error", "prices"}

\* priceError.data && priceError.data.length > 10, and the nine uint256 decode
\* of data.slice(10): the selector is not looked at
PricesDecoded(env) == env.prices \in {"long_error", "prices"}

\* how a staticCall of swapIn ends: it returns, or it reverts without data, with
\* another selector, or with FluidDexSwapResult(amountOut)
SwapReverts ==
    { [shape |-> sh, amount |-> Zero] : sh \in {"no_revert", "no_data", "other_selector"} }
    \cup { [shape |-> "FluidDexSwapResult", amount |-> a] : a \in OnChainAmounts }

\* getFluidRealPriceImpactQuote: price data, reserves, price-impact calculation
getFluidRealPriceImpactQuote(pool, amountIn, env) ==
    IF env.prices = "short_error" THEN Throw("data out-of-bounds")
    ELSE IF ~PricesDecoded(env) THEN Throw("Could not extract price data from Fluid pool")
    ELSE env.impact

\* getFluidLiveQuote: the swap simulation towards ADDRESS_DEAD, then the
\* center price (taken as 1) with the 0.02 % fee; throws without price data
getFluidLiveQuote(pool, amountIn, env) ==
    IF ~PricesDecoded(env) THEN Throw("Live quote calculation failed")
    ELSE IF env.live.shape = "FluidDexSwapResult" THEN Ok(env.live.amount)
    ELSE Ok(Big(0, FloorScaled(amountIn * 9998, pool.quote.decimals - pool.base.decimals,
                               10000)))

\* variant: every strategy is invoked, whatever the earlier ones returned
FluidStrategies_noStop(pool, amountIn, env) ==
    LET Attempt(nm, r) == [strategy |-> nm, result |-> r]
    IN  << Attempt("getFluidRealPriceImpactQuote", getFluidRealPriceImpactQuote(pool, amountIn, env)),
           Attempt("getFluidLiveQuote", getFluidLiveQuote(pool, amountIn, env)),
           Attempt("getFluidEstimatedQuote", Ok(getFluidEstimatedQuote(pool, amountIn))) >>

\* the strategies getFluidQuote invokes, in order, each with its result
FluidStrategies(pool, amountIn, env) ==
    LET addressMatch == pool.address = FLUID_USDE_USDT
        baseSymbolMatch == pool.base.symbol = "USDe"
        quoteSymbolMatch == pool.quote.symbol = "USDT"
        Attempt(nm, r) == [strategy |-> nm, result |-> r]
        impact == getFluidRealPriceImpactQuote(pool, amountIn, env)
        live == getFluidLiveQuote(pool, amountIn, env)
        estimated == Attempt("getFluidEstimatedQuote", Ok(getFluidEstimatedQuote(pool, amountIn)))
    IN  IF addressMatch /\ baseSymbolMatch /\ quoteSymbolMatch
        THEN <<Attempt("getFluidRealPriceImpactQuote", impact)>>
             \o (IF ~impact.threw THEN <<>>
                 ELSE <<Attempt("getFluidLiveQuote", live)>>
                      \o (IF ~live.threw THEN <<>> ELSE <<estimated>>))
        ELSE <<estimated>>

\* variant: the innermost catch rethrows the error of the live quote
getFluidQuote_rethrow(pool, amountIn, env) ==
    LET attempts == FluidStrategies(pool, amountIn, env)
    IN  IF Len(attempts) = 3 THEN attempts[2].result
        ELSE attempts[Len(attempts)].result

\* the value of the first strategy that does not throw; an estimate reached
\* through the catch blocks carries the error it replaces
getFluidQuote(pool, amountIn, env) ==
    LET attempts == FluidStrategies(pool, amountIn, env)
        returned == attempts[Len(attempts)].result
    IN  IF Len(attempts) = 3 THEN Estimate(returned.amount, attempts[2].result.error)
        ELSE returned

(***************************************************************************)
(* External aggregator pass-through (ZeroXQuoteService).                   *)
(***************************************************************************)
\* names of the sources with a positive proportion, one entry per source
RECURSIVE extractProtocolInfo(_)
extractProtocolInfo(fills) ==
    IF fills = <<>> THEN <<>>
    ELSE LET rest == extractProtocolInfo(Tail(fills))
             f == Head(fills)
         IN  IF f.proportionBps > 0 /\ \A k \in 1..Len(rest) : rest[k] # f.source
             THEN <<f.source>> \o rest ELSE rest

formatProtocolName(protocols) ==
    CASE Len(protocols) = 0 -> "Unknown via Matcha"
      [] Len(protocols) = 1 /\ protocols[1] = "Uniswap_V3" -> "Uniswap_V3 via Matcha"
      [] Len(protocols) = 1 /\ protocols[1] = "Ekubo" -> "Ekubo via Matcha"
      [] Len(protocols) = 2 -> "Ekubo+Uniswap_V3 via Matcha"
      [] OTHER -> "Matcha via aggregation"

getProtocolDetails(protocols) ==
    CASE Len(protocols) = 0 -> "No routing information available"
      [] Len(protocols) = 1 -> "single protocol: percentage"
      [] Len(protocols) = 2 -> "two protocols: percentages"
      [] OTHER -> "Multi-hop routing breakdown"

\* zeroExFeeAmount is <<>> when absent, <<fee>> otherwise
calculateNetQuoteAmount(buyAmount, zeroExFeeAmount) ==
    IF zeroExFeeAmount = <<>> \/ zeroExFeeAmount[1] = Zero THEN buyAmount
    ELSE BigAdd(buyAmount, zeroExFeeAmount[1])

\* <<>> for null, else <<[quote, protocolDetails]>>
getZeroXQuote(sellAmount, baseToken, quoteToken, pairId, zeroXResponse) ==
    LET protocols == extractProtocolInfo(zeroXResponse.fills)
        netBuyAmount == calculateNetQuoteAmount(zeroXResponse.buyAmount, zeroXResponse.zeroExFee)
        protocolName == formatProtocolName(protocols)
        poolInfo == [address |-> pairId, name |-> protocolName, dex |-> protocolName,
                     fee_tier |-> "variable", base |-> baseToken, quote |-> quoteToken]
        quote == [pool |-> poolInfo, inputAmount |-> sellAmount, outputAmount |-> netBuyAmount,
                  success |-> TRUE, error |-> NoError, protocolDetails |-> NULL]
    IN  IF ~zeroXResponse.answered \/ ~zeroXResponse.liquidityAvailable THEN <<>>
        ELSE IF Len(protocols) = 0 THEN <<>>
        ELSE <<[quote |-> quote, protocolDetails |-> getProtocolDetails(protocols)]>>

(***************************************************************************)
(* Quote normalisation: getQuoteForPoolWithAmount.                         *)
(***************************************************************************)
TokenPair == [id |-> "usdc-usdt", sellToken |-> Token("USDC", 6), buyToken |-> Token("USDT", 6)]

ZeroXAggregatorAddress(pairId) ==
    CASE pairId = "usdc-usdt" -> "zeroX-aggregator-usdc-usdt"
      [] OTHER -> "zeroX-aggregator-other"

ZeroXResult(amountIn, tokenPair, env) ==
    getZeroXQuote(amountIn, tokenPair.sellToken, tokenPair.buyToken,
                  ZeroXAggregatorAddress(tokenPair.id), env.zx)

\* the switch on pool.dex: what the selected quoter returns or throws
QuoterOutcome(pool, amountIn, tokenPair, env) ==
    CASE pool.dex \in {"uniswap_v2", "sushiswap"} -> getUniswapV2Quote(pool, amountIn, env)
      [] pool.dex = "uniswap_v3" -> getUniswapV3Quote(pool, amountIn, env)
      [] pool.dex = "uniswap_v4" -> getUniswapV4Quote(pool, amountIn, env)
      [] pool.dex = "curve" -> getCurveQuote(pool, amountIn, env)
      [] pool.dex = "balancer" -> getBalancerQuote(pool, amountIn)
      [] pool.dex = "fluid" -> getFluidQuote(pool, amountIn, env)
      [] pool.dex = "zerox" ->
            LET zeroXResult == ZeroXResult(amountIn, tokenPair, env)
            IN  IF zeroXResult = <<>> THEN Throw("ZeroX quote failed")
                ELSE Ok(zeroXResult[1].quote.outputAmount)
      [] OTHER -> Throw("Unsupported DEX")

(***************************************************************************)
(* The contract calls a quoter sends to the node, in order, each with the  *)
(* way it is sent: through alchemyRateLimiter.execute or straight on the   *)
(* provider.                                                               *)
(***************************************************************************)
Call(method, executor) == [method |-> method, executor |-> executor]

RECURSIVE Flatten(_)
Flatten(seqs) == IF seqs = <<>> THEN <<>> ELSE Head(seqs) \o Flatten(Tail(seqs))

V3Calls(pool, amountIn, env) ==
    LET fee == parseInt(IF pool.fee_tier = NULL THEN "3000" ELSE pool.fee_tier)
        addressesMatch == computePoolAddress(pool.base, pool.quote, fee) = pool.address
        \* Promise.all([poolContract.slot0(), poolContract.liquidity()])
        reads == IF addressesMatch THEN <<Call("slot0", FALSE), Call("liquidity", FALSE)>>
                 ELSE <<>>
        sdkReturned == addressesMatch /\ ~env.read.threw /\ env.read.amount # Zero
                       /\ ~env.trade.threw
    IN  IF fee \notin V3_FEE_TIERS THEN <<>>
        ELSE IF sdkReturned THEN reads
        ELSE reads \o <<Call("quoteExactInputSingle", TRUE)>>

V4Calls(pool, amountIn, env) ==
    IF ~getV4PoolConfig(pool.base.symbol, pool.quote.symbol) THEN <<>>
    ELSE <<Call("getCode", FALSE)>>
         \o (IF env.code THEN <<Call("quoteExactInputSingle", TRUE)>> ELSE <<>>)

\* coins(0..2) up to the first call that fails, then get_dy when i and j are set
CurveCalls(pool, amountIn, env) ==
    LET coins == CoinsAnswered(env)
        probes == IF coins[1] = FAIL THEN 1 ELSE IF coins[2] = FAIL THEN 2 ELSE 3
    IN  [k \in 1..probes |-> Call("coins", FALSE)]
        \o (IF CurveIndices(pool, coins) = <<-1, -1>> THEN <<>>
            ELSE <<Call("get_dy", FALSE)>>)

\* the calls of the strategies getFluidQuote invokes
FluidCalls(pool, amountIn, env) ==
    LET attempts == FluidStrategies(pool, amountIn, env)
        prices == <<Call("getPricesAndExchangePrices", FALSE)>>
        CallsOf(nm) ==
            CASE nm = "getFluidRealPriceImpactQuote" ->
                    prices \o (IF PricesDecoded(env) THEN <<Call("getCollateralReserves", FALSE)>>
                               ELSE <<>>)
              [] nm = "getFluidLiveQuote" ->
                    prices \o (IF PricesDecoded(env) THEN <<Call("swapIn", FALSE)>> ELSE <<>>)
              [] OTHER -> <<>>
    IN  Flatten([k \in DOMAIN attempts |-> CallsOf(attempts[k].strategy)])

OnChainCalls(pool, amountIn, env) ==
    CASE pool.dex \in {"uniswap_v2", "sushiswap"} -> <<Call("getAmountsOut", TRUE)>>
      [] pool.dex = "uniswap_v3" -> V3Calls(pool, amountIn, env)
      [] pool.dex = "uniswap_v4" -> V4Calls(pool, amountIn, env)
      [] pool.dex = "curve" -> CurveCalls(pool, amountIn, env)
      [] pool.dex = "fluid" -> FluidCalls(pool, amountIn, env)
      [] OTHER -> <<>>

(***************************************************************************)
(* The records getFluidQuote hands to logFluidQuote, in order.             *)
(***************************************************************************)
FluidLog(strategy, method, success, result) ==
    [strategy |-> strategy, method |-> method, success |-> success,
     outputAmount |-> IF success THEN result.amount ELSE Zero]

FluidLogs(pool, amountIn, env) ==
    LET attempts == FluidStrategies(pool, amountIn, env)
        LogsOf(a) ==
            CASE a.strategy = "getFluidRealPriceImpactQuote" ->
                    <<FluidLog(a.strategy, "direct_simulation", ~a.result.threw, a.result)>>
              \* a record only in front of the throw at the end of the function
              [] a.strategy = "getFluidLiveQuote" ->
                    IF a.result.threw
                    THEN <<FluidLog(a.strategy, "live_price_calculation", FALSE, a.result)>>
                    ELSE <<>>
              \* the record of the try block, or that of the catch block
              [] OTHER ->
                    <<FluidLog(a.strategy, "estimation_fallback",
                               FluidEstimateBranch(pool) # "error", a.result)>>
    IN  Flatten([k \in DOMAIN attempts |-> LogsOf(attempts[k])])

\* the locals of the selected quoter that the properties refer to
NoFrame == [strategies |-> <<>>, tick |-> <<>>, indices |-> <<>>, calls |-> <<>>,
            reverts |-> <<>>, logs |-> <<>>, zeroXResponse |-> <<>>]

QuoterFrame(pool, amountIn, env) ==
    LET calls == [NoFrame EXCEPT !.calls = OnChainCalls(pool, amountIn, env)]
    IN  CASE pool.dex = "uniswap_v3" -> [calls EXCEPT !.tick = V3TickFrame(pool, env)]
          [] pool.dex = "curve" -> [calls EXCEPT !.indices = CurveFrame(pool, env)]
          [] pool.dex = "fluid" ->
                [calls EXCEPT !.strategies = FluidStrategies(pool, amountIn, env),
                              !.reverts = <<[prices |-> env.prices, swap |-> env.live.shape]>>,
                              !.logs = FluidLogs(pool, amountIn, env)]
          [] pool.dex = "zerox" ->
                [calls EXCEPT !.zeroXResponse = IF env.zx.answered THEN <<env.zx>> ELSE <<>>]
          [] OTHER -> calls

\* the object returned after the switch (success: true)
SuccessQuote(pool, amountIn, outputAmount) ==
    [pool |-> pool, inputAmount |-> amountIn, outputAmount |-> outputAmount,
     success |-> TRUE, error |-> NoError, protocolDetails |-> NULL]

\* variant: the catch block answers with the success-shaped object
FailedQuote_asSuccess(pool, amountIn, message) ==
    [pool |-> pool, inputAmount |-> amountIn, outputAmount |-> Zero,
     success |-> TRUE, error |-> NoError, protocolDetails |-> NULL]

\* the object returned by the catch block (success: false, outputAmount '0')
FailedQuote(pool, amountIn, message) ==
    [pool |-> pool, inputAmount |-> amountIn, outputAmount |-> Zero,
     success |-> FALSE, error |-> message, protocolDetails |-> NULL]

getQuoteForPoolWithAmount(pool, amountIn, tokenPair, env) ==
    LET r == QuoterOutcome(pool, amountIn, tokenPair, env)
    IN  IF r.threw THEN FailedQuote(pool, amountIn, r.error)
        ELSE IF pool.dex = "zerox"
        THEN LET zeroXResult == ZeroXResult(amountIn, tokenPair, env)[1]
             IN  [zeroXResult.quote EXCEPT !.protocolDetails = zeroXResult.protocolDetails]
        ELSE SuccessQuote(pool, amountIn, r.amount)

(***************************************************************************)
(* Ranking engine: calculateRankings.                                      *)
(***************************************************************************)
\* variant: a sort that puts the later of two equal quotes first
RECURSIVE InsertDescending_tiesFirst(_, _)
InsertDescending_tiesFirst(sorted, q) ==
    IF sorted = <<>> THEN <<q>>
    ELSE IF BigLE(parseFloat(Head(sorted).outputAmount), parseFloat(q.outputAmount))
         THEN <<q>> \o sorted
         ELSE <<Head(sorted)>> \o InsertDescending_tiesFirst(Tail(sorted), q)

\* Array.prototype.sort with the comparator parseFloat(b) - parseFloat(a):
\* a stable sort, descending by the double value of outputAmount
RECURSIVE InsertDescending(_, _)
InsertDescending(sorted, q) ==
    IF sorted = <<>> THEN <<q>>
    ELSE IF BigLT(parseFloat(Head(sorted).outputAmount), parseFloat(q.outputAmount))
         THEN <<q>> \o sorted
         ELSE <<Head(sorted)>> \o InsertDescending(Tail(sorted), q)

RECURSIVE SortDescending(_)
SortDescending(seq) ==
    IF seq = <<>> THEN <<>>
    ELSE InsertDescending(SortDescending(SubSeq(seq, 1, Len(seq) - 1)), seq[Len(seq)])

\* a priceAdvantage value is the rational num / den (den > 0)
Ratio(n, d) == [num |-> n, den |-> d]

\* variant: the map callback without Math.min(priceAdvantage, 1000)
PriceAdvantage_noCap(currentOutput, worstOutput, bestOutput) ==
    LET diff == RoundToDouble(BigSub(currentOutput, worstOutput))
        absDiff == IF BigLT(diff, Zero) THEN BigSub(Zero, diff) ELSE diff
        raw == Ratio(BigMul(diff, 100), worstOutput)
        floored == IF BigLT(raw.num, Zero) THEN Ratio(Zero, Big(0, 1)) ELSE raw
        verySmall == BigLT(BigMul(absDiff, 10000), bestOutput)
    IN  IF ~BigLT(Zero, worstOutput) THEN Ratio(Zero, Big(0, 1))
        ELSE IF verySmall THEN Ratio(Zero, Big(0, 1))
        ELSE floored

\* the body of the map callback; the arguments are doubles
PriceAdvantage(currentOutput, worstOutput, bestOutput) ==
    LET diff == RoundToDouble(BigSub(currentOutput, worstOutput))
        absDiff == IF BigLT(diff, Zero) THEN BigSub(Zero, diff) ELSE diff
        \* ((currentOutput - worstOutput) / worstOutput) * 100
        raw == Ratio(BigMul(diff, 100), worstOutput)
        capped == IF BigLT(BigMul(worstOutput, 1000), raw.num)
                  THEN Ratio(Big(0, 1000), Big(0, 1)) ELSE raw
        floored == IF BigLT(capped.num, Zero) THEN Ratio(Zero, Big(0, 1)) ELSE capped
        \* Math.abs(currentOutput - worstOutput) / bestOutput < 0.0001
        verySmall == BigLT(BigMul(absDiff, 10000), bestOutput)
    IN  IF ~BigLT(Zero, worstOutput) THEN Ratio(Zero, Big(0, 1))
        ELSE IF verySmall THEN Ratio(Zero, Big(0, 1))
        ELSE floored

\* variant: the filter without the positive-output test
IsRankable_noZeroCheck(q) == q.success

\* the filter q.success && parseFloat(q.outputAmount) > 0
IsRankable(q) == q.success /\ BigLT(Zero, parseFloat(q.outputAmount))

calculateRankings(qs) ==
    LET sortedQuotes == SortDescending(SelectSeq(qs, IsRankable))
        n == Len(sortedQuotes)
    IN  IF Len(qs) = 0 \/ n = 0 THEN <<>>
        ELSE LET worstOutput == parseFloat(sortedQuotes[n].outputAmount)
                 bestOutput == parseFloat(sortedQuotes[1].outputAmount)
             IN  [index \in 1..n |->
                    [rank |-> index,
                     pool |-> sortedQuotes[index].pool,
                     quote |-> sortedQuotes[index],
                     priceAdvantage |->
                        PriceAdvantage(parseFloat(sortedQuotes[index].outputAmount),
                                       worstOutput, bestOutput)]]

(***************************************************************************)
(* AlchemyRateLimiter: execute, processQueue, executeWithRetry.  Time is   *)
(* counted in milliseconds and moves when an awaited timer fires or while   *)
(* the limiter is idle; an underlying call settles in the millisecond it   *)
(* is invoked (the tightest schedule of starts) or never.                  *)
(***************************************************************************)
maxRequestsPerSecond == 5
windowMs == 1000

\* variant: a ladder that grows by one second per retry
retryDelays_linear == <<1000, 2000, 3000, 4000, 5000>>

retryDelays == <<1000, 2000, 4000, 8000, 16000>>

\* the small delay between requests at the end of the loop body
RequestDelay == 200

\* step of the clock while nothing is queued
IdleStep == 2 * RequestDelay

NoCall == [id |-> 0, attempt |-> 0, outcomes |-> <<>>, waits |-> <<>>]

NoneSettled == [id |-> 0, status |-> "none", outcomes |-> <<>>, waits |-> <<>>,
                error |-> NoError, settledAt |-> 0]

\* the state of the exported instance after its construction
LimiterConstructed ==
    /\ requestQueue = <<>>
    /\ processing = FALSE
    /\ requestCount = 0
    /\ windowStart = 0
    /\ now = 0
    /\ lpc = "idle"
    /\ wake = 0
    /\ cur = NoCall
    /\ last = NoneSettled
    /\ log = <<>>
    /\ issued = 0
    /\ settled = 0
    /\ signals = 0
    /\ firstInvoke = -1

\* the invocation times kept: one more than a window may hold
PushLog(t) ==
    IF Len(log) <= maxRequestsPerSecond THEN Append(log, t) ELSE Append(Tail(log), t)

\* variant: the loop body without the window bookkeeping
LoopHead_noWindow(queue, t) ==
    /\ windowStart' = windowStart
    /\ requestCount' = requestCount + 1
    /\ requestQueue' = Tail(queue)
    /\ lpc' = "request"
    /\ wake' = wake
    /\ cur' = [id |-> Head(queue), attempt |-> 0, outcomes |-> <<>>, waits |-> <<>>]
    /\ log' = PushLog(t)
    /\ firstInvoke' = IF firstInvoke = -1 THEN t ELSE firstInvoke

\* one iteration of the while loop of processQueue at time t, up to its first
\* await: the window check, then either the wait for the window or the start
\* of the next request (executeWithRetry invokes the underlying call at once)
LoopHead(queue, t) ==
    LET rolled == t - windowStart >= windowMs
        count == IF rolled THEN 0 ELSE requestCount
        start == IF rolled THEN t ELSE windowStart
    IN  /\ windowStart' = start
        /\ IF count >= maxRequestsPerSecond
           THEN /\ requestCount' = count
                /\ requestQueue' = queue
                /\ lpc' = "timer"
                /\ wake' = t + (windowMs - (t - start))
                /\ UNCHANGED <<cur, log, firstInvoke>>
           ELSE /\ requestCount' = count + 1
                /\ requestQueue' = Tail(queue)
                /\ lpc' = "request"
                /\ wake' = wake
                /\ cur' = [id |-> Head(queue), attempt |-> 0, outcomes |-> <<>>,
                           waits |-> <<>>]
                /\ log' = PushLog(t)
                /\ firstInvoke' = IF firstInvoke = -1 THEN t ELSE firstInvoke

\* variant: the request is put at the front of the queue
Execute_unshift ==
    /\ issued < MaxCalls
    /\ issued' = issued + 1
    /\ IF ~processing
       THEN /\ processing' = TRUE
            /\ LoopHead(<<issued + 1>> \o requestQueue, now)
       ELSE /\ requestQueue' = <<issued + 1>> \o requestQueue
            /\ UNCHANGED <<processing, requestCount, windowStart, lpc, wake, cur, log,
                           firstInvoke>>
    /\ UNCHANGED <<now, last, settled, signals>>
    /\ UNCHANGED simVars

\* execute(fn): push the request; start processQueue unless it is running
Execute ==
    /\ issued < MaxCalls
    /\ issued' = issued + 1
    /\ IF ~processing
       THEN /\ processing' = TRUE
            /\ LoopHead(Append(requestQueue, issued + 1), now)
       ELSE /\ requestQueue' = Append(requestQueue, issued + 1)
            /\ UNCHANGED <<processing, requestCount, windowStart, lpc, wake, cur, log,
                           firstInvoke>>
    /\ UNCHANGED <<now, last, settled, signals>>
    /\ UNCHANGED simVars

\* variant: the loop goes on without awaiting the request it has started
TimerFires_noAwait ==
    /\ lpc \in {"timer", "request", "backoff"}
    /\ requestQueue # <<>>
    /\ now' = (IF lpc = "timer" THEN Max(now, wake) ELSE now)
    /\ LoopHead(requestQueue, IF lpc = "timer" THEN Max(now, wake) ELSE now)
    /\ UNCHANGED <<processing, last, issued, settled, signals>>
    /\ UNCHANGED simVars

\* the awaited setTimeout of processQueue fires and the loop goes on
TimerFires ==
    /\ lpc = "timer"
    /\ requestQueue # <<>>
    /\ now' = Max(now, wake)
    /\ LoopHead(requestQueue, Max(now, wake))
    /\ UNCHANGED <<processing, last, issued, settled, signals>>
    /\ UNCHANGED simVars

\* variant: the loop ends without resetting the processing flag
LoopExit_keepsFlag ==
    /\ lpc = "timer"
    /\ requestQueue = <<>>
    /\ now' = Max(now, wake)
    /\ lpc' = "idle"
    /\ UNCHANGED <<requestQueue, processing, requestCount, windowStart, wake, cur, last, log,
                   issued, settled, signals, firstInvoke>>
    /\ UNCHANGED simVars

\* the awaited setTimeout fires with an empty queue: processing = false
LoopExit ==
    /\ lpc = "timer"
    /\ requestQueue = <<>>
    /\ now' = Max(now, wake)
    /\ processing' = FALSE
    /\ lpc' = "idle"
    /\ UNCHANGED <<requestQueue, requestCount, windowStart, wake, cur, last, log, issued,
                   settled, signals, firstInvoke>>
    /\ UNCHANGED simVars

\* resolve or reject of the promise of execute, then the delay of the loop body
Settle(status, err, outcome, t) ==
    /\ last' = [id |-> cur.id, status |-> status, outcomes |-> Append(cur.outcomes, outcome),
                waits |-> cur.waits, error |-> err, settledAt |-> t]
    /\ settled' = settled + 1
    /\ cur' = NoCall
    /\ lpc' = "timer"
    /\ wake' = t + RequestDelay
    /\ now' = t

\* the underlying call returns: executeWithRetry returns, resolve(result)
CallResolves ==
    /\ lpc = "request"
    /\ Settle("resolved", NoError, "ok", now)
    /\ UNCHANGED <<requestQueue, processing, requestCount, windowStart, log, issued, signals,
                   firstInvoke>>
    /\ UNCHANGED simVars

\* variant: an error that is no rate-limit signal is retried after a backoff
CallRejects_retry ==
    /\ lpc = "request"
    /\ cur.attempt < Len(retryDelays)
    /\ lpc' = "backoff"
    /\ wake' = now + retryDelays[cur.attempt + 1]
    /\ cur' = [cur EXCEPT !.attempt = @ + 1, !.outcomes = Append(@, "error"),
                          !.waits = Append(@, retryDelays[cur.attempt + 1])]
    /\ UNCHANGED <<requestQueue, processing, requestCount, windowStart, now, last, log,
                   issued, settled, signals, firstInvoke>>
    /\ UNCHANGED simVars

\* the underlying call throws an error that is no rate-limit signal:
\* executeWithRetry rethrows it, reject(error)
CallRejects ==
    /\ lpc = "request"
    /\ Settle("rejected", "call revert", "error", now)
    /\ UNCHANGED <<requestQueue, processing, requestCount, windowStart, log, issued, signals,
                   firstInvoke>>
    /\ UNCHANGED simVars

\* variant: a rate-limit signal is retried without a ceiling
CallRateLimited_noCeiling ==
    /\ lpc = "request"
    /\ signals < MaxSignals + 1
    /\ signals' = signals + 1
    /\ lpc' = "backoff"
    /\ wake' = now + retryDelays[Min(cur.attempt + 1, Len(retryDelays))]
    /\ cur' = [cur EXCEPT !.attempt = @ + 1, !.outcomes = Append(@, "rate_limit"),
                          !.waits = Append(@, retryDelays[Min(cur.attempt + 1,
                                                              Len(retryDelays))])]
    /\ UNCHANGED <<requestQueue, processing, requestCount, windowStart, now, last, log,
                   issued, settled, firstInvoke>>
    /\ UNCHANGED simVars

\* the underlying call throws status 429 or code RATE_LIMIT_EXCEEDED: a backoff
\* wait while attempt < retryDelays.length, else the error is rethrown
CallRateLimited ==
    /\ lpc = "request"
    /\ signals < MaxSignals
    /\ signals' = signals + 1
    /\ IF cur.attempt < Len(retryDelays)
       THEN /\ lpc' = "backoff"
            /\ wake' = now + retryDelays[cur.attempt + 1]
            /\ cur' = [cur EXCEPT !.attempt = @ + 1,
                                  !.outcomes = Append(@, "rate_limit"),
                                  !.waits = Append(@, retryDelays[cur.attempt + 1])]
            /\ UNCHANGED <<now, last, settled>>
       ELSE Settle("rejected", "RATE_LIMIT_EXCEEDED", "rate_limit", now)
    /\ UNCHANGED <<requestQueue, processing, requestCount, windowStart, log, issued,
                   firstInvoke>>
    /\ UNCHANGED simVars

\* the backoff timer fires: executeWithRetry(fn, attempt + 1) invokes the call
BackoffFires ==
    /\ lpc = "backoff"
    /\ now' = Max(now, wake)
    /\ lpc' = "request"
    /\ log' = PushLog(Max(now, wake))
    /\ UNCHANGED <<requestQueue, processing, requestCount, windowStart, wake, cur, last,
                   issued, settled, signals, firstInvoke>>
    /\ UNCHANGED simVars

\* the promise of the underlying call never settles: await request() stays pending
CallHangs ==
    /\ lpc = "request"
    /\ lpc' = "stuck"
    /\ UNCHANGED <<requestQueue, processing, requestCount, windowStart, now, wake, cur,
                   last, log, issued, settled, signals, firstInvoke>>
    /\ UNCHANGED simVars

\* time passes while nothing is queued
Elapse ==
    /\ lpc = "idle"
    /\ issued < MaxCalls
    /\ now < MaxClock
    /\ now' = now + IdleStep
    /\ UNCHANGED <<requestQueue, processing, requestCount, windowStart, lpc, wake, cur,
                   last, log, issued, settled, signals, firstInvoke>>
    /\ UNCHANGED simVars

(***************************************************************************)
(* simulateSwapsWithAmount as a state machine.                             *)
(***************************************************************************)
PoolLists == UNION { [1..n -> Registry] : n \in 0..MaxPools }

Init ==
    /\ pools \in PoolLists
    /\ inputAmount \in InputAmounts
    /\ pc = "loop"
    /\ current = 0
    /\ started = <<>>
    /\ quotes = <<>>
    /\ outcomes = <<>>
    /\ rankings = <<>>
    /\ bestQuote = <<>>
    /\ frame = NoFrame
    /\ LimiterConstructed

\* for (const pool of pools): take the next pool and call getQuoteForPoolWithAmount
StartQuote ==
    /\ pc = "loop"
    /\ current < Len(pools)
    /\ current' = current + 1
    /\ started' = Append(started, current + 1)
    /\ pc' = "quoting"
    /\ frame' = NoFrame
    /\ UNCHANGED <<pools, inputAmount, quotes, outcomes, rankings, bestQuote>>
    /\ UNCHANGED limiterVars

\* variant: quotes.unshift(quote) in place of quotes.push(quote)
RecordQuote_unshift(env) ==
    /\ quotes' = <<getQuoteForPoolWithAmount(pools[current], inputAmount, TokenPair, env)>>
                    \o quotes
    /\ outcomes' = Append(outcomes, QuoterOutcome(pools[current], inputAmount, TokenPair, env))
    /\ frame' = QuoterFrame(pools[current], inputAmount, env)
    /\ pc' = "loop"
    /\ UNCHANGED <<pools, inputAmount, current, started, rankings, bestQuote>>
    /\ UNCHANGED limiterVars

\* the awaited getQuoteForPoolWithAmount settles and quotes.push(quote) runs
RecordQuote(env) ==
    /\ quotes' = Append(quotes,
                        getQuoteForPoolWithAmount(pools[current], inputAmount, TokenPair, env))
    /\ outcomes' = Append(outcomes, QuoterOutcome(pools[current], inputAmount, TokenPair, env))
    /\ frame' = QuoterFrame(pools[current], inputAmount, env)
    /\ pc' = "loop"
    /\ UNCHANGED <<pools, inputAmount, current, started, rankings, bestQuote>>
    /\ UNCHANGED limiterVars

QuoteUniswapV2 ==
    /\ pc = "quoting"
    /\ pools[current].dex \in {"uniswap_v2", "sushiswap"}
    /\ \E r \in CallResults : RecordQuote([DefaultEnv EXCEPT !.rpc = r])

\* liquidity() answers 0 or a positive amount, or the state read fails
V3Reads == { Throw("call revert"), Ok(Zero), Ok(Big(0, 2)) }

\* slot0().tick is an int24: ticks inside and outside [MIN_TICK, MAX_TICK]
RawTicks == { -887280, -25, 7, 887272, 887280 }

QuoteUniswapV3 ==
    /\ pc = "quoting"
    /\ pools[current].dex = "uniswap_v3"
    /\ \E rd \in V3Reads, tk \in RawTicks, tr \in CallResults, r \in CallResults :
          RecordQuote([DefaultEnv EXCEPT !.read = rd, !.tick = tk, !.trade = tr, !.rpc = r])

QuoteUniswapV4 ==
    /\ pc = "quoting"
    /\ pools[current].dex = "uniswap_v4"
    /\ \E c \in BOOLEAN, r \in CallResults :
          RecordQuote([DefaultEnv EXCEPT !.code = c, !.rpc = r])

CoinAnswers(pool) == { pool.base.address, pool.quote.address, "DAI", FAIL }

\* the coins of the contract at pool.address: 3Pool holds DAI, USDC, USDT
PoolCoins(pool) ==
    IF pool.address = CURVE_3POOL THEN { <<"DAI", "USDC", "USDT">> }
    ELSE [1..3 -> CoinAnswers(pool)]

\* a coins() call may fail although the index exists (node error)
ProbeFailures == { {}, {0}, {1}, {2} }

QuoteCurve ==
    /\ pc = "quoting"
    /\ pools[current].dex = "curve"
    /\ \E cs \in PoolCoins(pools[current]), dn \in ProbeFailures, dy \in CallResults :
          RecordQuote([DefaultEnv EXCEPT !.coins = cs, !.down = dn, !.get_dy = dy])

QuoteBalancer ==
    /\ pc = "quoting"
    /\ pools[current].dex = "balancer"
    /\ RecordQuote(DefaultEnv)

QuoteFluid ==
    /\ pc = "quoting"
    /\ pools[current].dex = "fluid"
    /\ \E im \in CallResults, pr \in PriceReverts, lv \in SwapReverts :
          RecordQuote([DefaultEnv EXCEPT !.impact = im, !.prices = pr, !.live = lv])

ZeroXFills == { <<>>, <<[source |-> "Uniswap_V3", proportionBps |-> 10000]>>,
                <<[source |-> "Ekubo", proportionBps |-> 0]>> }

ZeroXResponses ==
    { DefaultEnv.zx } \cup
    { [answered |-> TRUE, liquidityAvailable |-> la, buyAmount |-> b, zeroExFee |-> fee, fills |-> fl] :
        la \in BOOLEAN, b \in OnChainAmounts, fee \in {<<>>, <<Zero>>, <<Big(0, 1)>>}, fl \in ZeroXFills }

QuoteZeroX ==
    /\ pc = "quoting"
    /\ pools[current].dex = "zerox"
    /\ \E z \in ZeroXResponses : RecordQuote([DefaultEnv EXCEPT !.zx = z])

SupportedDexes == {"uniswap_v2", "sushiswap", "uniswap_v3", "uniswap_v4", "curve",
                   "balancer", "fluid", "zerox"}

QuoteUnsupported ==
    /\ pc = "quoting"
    /\ pools[current].dex \notin SupportedDexes
    /\ RecordQuote(DefaultEnv)

\* after the loop: filter, calculateRankings, bestQuote, return
Finish ==
    /\ pc = "loop"
    /\ current = Len(pools)
    /\ LET IsSuccess(q) == q.success
           successfulQuotes == SelectSeq(quotes, IsSuccess)
           r == calculateRankings(successfulQuotes)
       IN  /\ rankings' = r
           /\ bestQuote' = IF Len(r) > 0 THEN <<r[1].quote>> ELSE <<>>
    /\ pc' = "done"
    /\ UNCHANGED <<pools, inputAmount, current, started, quotes, outcomes, frame>>
    /\ UNCHANGED limiterVars

Next ==
    \/ StartQuote
    \/ QuoteUniswapV2
    \/ QuoteUniswapV3
    \/ QuoteUniswapV4
    \/ QuoteCurve
    \/ QuoteBalancer
    \/ QuoteFluid
    \/ QuoteZeroX
    \/ QuoteUnsupported
    \/ Finish

Spec == Init /\ [][Next]_vars

TypeOK ==
    /\ pc \in {"loop", "quoting", "done"}
    /\ current \in 0..Len(pools)
    /\ Len(quotes) <= Len(pools)

(***************************************************************************)
(* The ranking engine alone: the state after the loop for any quoter       *)
(* results of constant-product pools, then the ranking step.               *)
(***************************************************************************)
MaxQuotes == 3     \* longest quote list ranked in SpecRank

RankPools == { p \in Registry : p.dex \in {"uniswap_v2", "sushiswap"} }

\* answers around the thresholds of calculateRankings: zero, a tie, the
\* 1000 % cap (1 against 11 and 12), the 0.01 % noise threshold, 2^53
RankAmounts == { Big(0, 0), Big(0, 1), Big(0, 11), Big(0, 12), Big(0, 10000),
                 Big(0, 10001), Big(1, 0), Big(1, 1) }

RankResults == { Throw("call revert") } \cup { Ok(a) : a \in RankAmounts }

InitRank ==
    /\ inputAmount = 2000
    /\ \E n \in 0..MaxQuotes :
          /\ pools \in [1..n -> RankPools]
          /\ outcomes \in [1..n -> RankResults]
          /\ started = [i \in 1..n |-> i]
          /\ current = n
    /\ quotes = [i \in 1..Len(pools) |->
                    getQuoteForPoolWithAmount(pools[i], inputAmount, TokenPair,
                                              [DefaultEnv EXCEPT !.rpc = outcomes[i]])]
    /\ pc = "loop"
    /\ rankings = <<>>
    /\ bestQuote = <<>>
    /\ frame = NoFrame
    /\ LimiterConstructed

NextRank == Finish

SpecRank == InitRank /\ [][NextRank]_vars

(***************************************************************************)
(* One pool at a time: the run over a single-pool list, the pool taken     *)
(* from the registry or from pool discovery.                               *)
(***************************************************************************)
\* descriptors as pool discovery delivers them
DiscoveredPools ==
    { Pool("0xv3medium", "USDC/USDT 0.3%", "uniswap_v3", "3000", "USDC", 6, "USDT", 6),
      Pool(CURVE_3POOL, "USDC/DAI Curve 3Pool", "curve", NULL, "USDC", 6, "DAI", 9),
      Pool(CURVE_3POOL, "USDC/USDT Curve 3Pool", "curve", NULL, "USDC", 6, "USDT", 6),
      Pool("0xfluiddai", "DAI/USDC Fluid", "fluid", "100", "DAI", 9, "USDC", 6),
      Pool("0xfluiduni", "UNI/USDC Fluid", "fluid", "100", "UNI", 3, "USDC", 3),
      Pool("0xfluidlink", "LINK/USDC Fluid", "fluid", "100", "LINK", MissingDecimals, "USDC", 6) }

InitPool ==
    /\ pools \in [1..1 -> Registry \cup DiscoveredPools]
    /\ inputAmount \in InputAmounts
    /\ pc = "loop"
    /\ current = 0
    /\ started = <<>>
    /\ quotes = <<>>
    /\ outcomes = <<>>
    /\ rankings = <<>>
    /\ bestQuote = <<>>
    /\ frame = NoFrame
    /\ LimiterConstructed

SpecPool == InitPool /\ [][Next]_vars

(***************************************************************************)
(* The rate limiter alone: no simulation run is in progress.               *)
(***************************************************************************)
NoRun ==
    /\ pools = <<>>
    /\ inputAmount = 1
    /\ pc = "done"
    /\ current = 0
    /\ started = <<>>
    /\ quotes = <<>>
    /\ outcomes = <<>>
    /\ rankings = <<>>
    /\ bestQuote = <<>>
    /\ frame = NoFrame

InitLimiter == NoRun /\ LimiterConstructed

NextLimiter ==
    \/ Execute
    \/ TimerFires
    \/ LoopExit
    \/ CallResolves
    \/ CallRejects
    \/ CallRateLimited
    \/ BackoffFires
    \/ CallHangs
    \/ Elapse

SpecLimiter == InitLimiter /\ [][NextLimiter]_vars

\* a pending timer fires and a settling call settles
SpecLimiterFair == SpecLimiter /\ WF_vars(NextLimiter)

\* every invocation of an underlying call settles: no call hangs
NextSettling ==
    \/ Execute
    \/ TimerFires
    \/ LoopExit
    \/ CallResolves
    \/ CallRejects
    \/ CallRateLimited
    \/ BackoffFires
    \/ Elapse

\* the steps of the event loop: a pending timer fires, a pending call settles
LimiterProgress ==
    \/ TimerFires
    \/ LoopExit
    \/ CallResolves
    \/ CallRejects
    \/ CallRateLimited
    \/ BackoffFires

SpecSettling == InitLimiter /\ [][NextSettling]_vars /\ WF_vars(LimiterProgress)

\* the rate-limit scenario: execute is called 20 times in one synchronous burst
ScenarioCalls == 4 * maxRequestsPerSecond

\* the state after the burst at time t0: the first call is invoked, the others wait
InitBurst ==
    /\ NoRun
    /\ now \in {0, 400, 1000}
    /\ requestQueue = [k \in 1..(ScenarioCalls - 1) |-> k + 1]
    /\ processing = TRUE
    /\ requestCount = 1
    /\ windowStart = (IF now >= windowMs THEN now ELSE 0)
    /\ lpc = "request"
    /\ wake = 0
    /\ cur = [id |-> 1, attempt |-> 0, outcomes |-> <<>>, waits |-> <<>>]
    /\ last = NoneSettled
    /\ log = <<now>>
    /\ issued = ScenarioCalls
    /\ settled = 0
    /\ signals = 0
    /\ firstInvoke = now

NextBurst ==
    \/ TimerFires
    \/ LoopExit
    \/ CallResolves
    \/ CallRejects
    \/ CallRateLimited
    \/ BackoffFires

\* every underlying call of the scenario settles and every timer fires
SpecBurst == InitBurst /\ [][NextBurst]_vars /\ WF_vars(NextBurst)

(***************************************************************************)
(* Properties.                                                             *)
(***************************************************************************)
Range(seq) == { seq[i] : i \in DOMAIN seq }
Done == pc = "done"
RankedQuotes == [i \in DOMAIN rankings |-> rankings[i].quote]
HasAmount(seq, amt) == LET Same(q) == q.outputAmount = amt IN SelectSeq(seq, Same)
Count(seq, x) == Cardinality({ i \in DOMAIN seq : seq[i] = x })

\* C1: in every Quote of the run, outputAmount == 0 implies success == false.
C1_ZeroOutputImpliesFailure ==
    \A i \in DOMAIN quotes : quotes[i].outputAmount = Zero => ~quotes[i].success

\* C2: the pool of every Quote is one of the PoolInfo records of the supplied list.
C2_QuotePoolFromInputList ==
    \A i \in DOMAIN quotes : quotes[i].pool \in Range(pools)

\* C3: a pool whose quoter throws contributes a Quote with success = false and an
\* error string, the loop goes on to the next pool, and the run ends with one
\* quote per pool whatever fails.
C3_FailureIsolated ==
    /\ Len(outcomes) = Len(quotes)
    /\ \A i \in DOMAIN quotes :
          outcomes[i].threw => (~quotes[i].success /\ quotes[i].error # NoError)
    /\ pc = "loop" => Len(quotes) = current
    /\ Done => Len(quotes) = Len(pools)

C3_Witness ==
    /\ Done
    /\ Len(pools) = 2
    /\ outcomes[1].threw /\ ~quotes[1].success
    /\ quotes[2].success

\* C4: quotes has one entry per pool, entry i is the result of quoting pools[i],
\* and pool i+1 is started only after the quote of pool i has been recorded.
C4_CollectionOrder ==
    /\ started = [i \in 1..current |-> i]
    /\ Len(quotes) = IF pc = "quoting" THEN current - 1 ELSE current
    /\ Done => Len(quotes) = Len(pools)
    /\ \A i \in DOMAIN quotes :
          /\ quotes[i].success = ~outcomes[i].threw
          /\ quotes[i].outputAmount = outcomes[i].amount
          /\ quotes[i].error = outcomes[i].error
          /\ pools[i].dex # "zerox" => quotes[i].pool = pools[i]

C4_Witness ==
    /\ Done
    /\ Len(quotes) = 2
    /\ pools[1] # pools[2]
    /\ ~quotes[1].success /\ quotes[2].success

\* C5: a pool-level failure in the constant-product, v3-style or stable-swap quoter
\* (a thrown error, or an error the quoter caught) yields success = false and
\* outputAmount 0.
C5_FailureYieldsFailedQuote ==
    \A i \in DOMAIN quotes :
        ( /\ pools[i].dex \in {"uniswap_v2", "sushiswap", "uniswap_v3", "curve"}
          /\ (outcomes[i].threw \/ outcomes[i].swallowed # NoError) )
        => (~quotes[i].success /\ quotes[i].outputAmount = Zero)

\* C6: rankings holds exactly the quotes of the run with success and
\* outputAmount > 0, each as often as it occurs in quotes.
C6_RankingsAreTheValidQuotes ==
    Done =>
        /\ \A i \in DOMAIN rankings :
              /\ rankings[i].quote.success
              /\ BigLT(Zero, rankings[i].quote.outputAmount)
              /\ rankings[i].pool = rankings[i].quote.pool
        /\ \A q \in Range(quotes) \cup Range(RankedQuotes) :
              Count(RankedQuotes, q) =
                 IF q.success /\ BigLT(Zero, q.outputAmount) THEN Count(quotes, q) ELSE 0
        /\ (\A i \in DOMAIN quotes : ~quotes[i].success) => rankings = <<>>

C6_Witness ==
    /\ Done
    /\ Len(quotes) = 2
    /\ quotes[1].success /\ quotes[1].outputAmount = Zero
    /\ quotes[2].success /\ BigLT(Zero, quotes[2].outputAmount)
    /\ Len(rankings) = 1

\* C7: rankings are ordered by descending outputAmount compared as exact
\* integers, and the rank numbers are exactly 1..N.
C7_ExactDescendingOrder ==
    Done =>
        /\ \A i \in DOMAIN rankings : rankings[i].rank = i
        /\ \A i, j \in DOMAIN rankings :
              i < j => BigLE(rankings[j].quote.outputAmount, rankings[i].quote.outputAmount)

\* C8: quotes with identical outputAmount are ranked in the order of the input list.
C8_TiesKeepInputOrder ==
    Done =>
        \A amt \in { q.outputAmount : q \in Range(RankedQuotes) } :
            HasAmount(RankedQuotes, amt) = HasAmount(SelectSeq(quotes, IsRankable), amt)

C8_Witness ==
    /\ Done
    /\ Len(rankings) >= 2
    /\ \E i \in DOMAIN rankings : \E j \in DOMAIN rankings :
          /\ i < j
          /\ rankings[i].quote.outputAmount = rankings[j].quote.outputAmount
          /\ rankings[i].pool # rankings[j].pool
          /\ rankings[i].quote = quotes[1]

\* C9: bestQuote is null exactly when rankings is empty, and otherwise the quote
\* of rank 1, whose outputAmount is maximal among the ranked quotes.
C9_BestQuoteIsMaximal ==
    Done =>
        /\ (bestQuote = <<>>) <=> (rankings = <<>>)
        /\ rankings # <<>> =>
              /\ bestQuote = <<rankings[1].quote>>
              /\ \A i \in DOMAIN rankings :
                    BigLE(rankings[i].quote.outputAmount, bestQuote[1].outputAmount)
        /\ (\A i \in DOMAIN quotes : ~quotes[i].success) => (rankings = <<>> /\ bestQuote = <<>>)

\* C10: every priceAdvantage is within [0, 1000] and the worst-ranked entry has
\* priceAdvantage 0.
C10_PriceAdvantageInRange ==
    Done =>
        /\ \A i \in DOMAIN rankings :
              LET pa == rankings[i].priceAdvantage
              IN  /\ BigLT(Zero, pa.den)
                  /\ BigLE(Zero, pa.num)
                  /\ BigLE(pa.num, BigMul(pa.den, 1000))
        /\ rankings # <<>> => rankings[Len(rankings)].priceAdvantage.num = Zero

\* an extreme quote (2^53 or 12) against a worst quote of 1: the raw percentage
\* is above 1000 and the reported one is exactly 1000
C10_Witness ==
    /\ Done
    /\ Len(rankings) >= 2
    /\ rankings[Len(rankings)].quote.outputAmount = Big(0, 1)
    /\ rankings[1].quote.outputAmount \in {Big(0, 12), Big(1, 0)}
    /\ rankings[1].priceAdvantage = Ratio(Big(0, 1000), Big(0, 1))

(***************************************************************************)
(* Properties of the protocol quoters.  frame holds the locals of the      *)
(* quoter call of pools[current] once that call has settled.               *)
(***************************************************************************)
DirectSimulation == "getFluidLiveQuote"             \* swapIn towards ADDRESS_DEAD
ReserveBased == "getFluidRealPriceImpactQuote"      \* reserves and price range
StaticEstimation == "getFluidEstimatedQuote"

\* position of a strategy in the list of attempts, 0 when it was not invoked
Position(attempts, nm) ==
    IF \E k \in DOMAIN attempts : attempts[k].strategy = nm
    THEN CHOOSE k \in DOMAIN attempts : attempts[k].strategy = nm
    ELSE 0

FailedBefore(attempts, first, second) ==
    /\ Position(attempts, first) > 0
    /\ Position(attempts, first) < Position(attempts, second)
    /\ attempts[Position(attempts, first)].result.threw

\* C11: getFluidQuote invokes the reserve-based calculation only after the direct
\* swap simulation has failed in the same call, and the static estimation only
\* after the reserve-based calculation has been attempted and failed.
C11_FluidStrategyOrder ==
    LET attempts == frame.strategies
    IN  /\ Position(attempts, ReserveBased) > 0
              => FailedBefore(attempts, DirectSimulation, ReserveBased)
        /\ Position(attempts, StaticEstimation) > 0
              => FailedBefore(attempts, ReserveBased, StaticEstimation)

C14_TickAligned ==
    \A k \in DOMAIN frame.tick :
        /\ frame.tick[k].validTick % frame.tick[k].tickSpacing = 0
        /\ frame.tick[k].validTick >= MIN_TICK
        /\ frame.tick[k].validTick <= MAX_TICK

\* C15: when both requested tokens are coins of the pool, the indices of the
\* get_dy call differ, coins(i) is the base token and coins(j) the quote token.
C15_CurveIndicesMatch ==
    \A k \in DOMAIN frame.indices :
        LET e == frame.indices[k]
            pool == pools[current]
        IN  ( /\ pool.base.address \in Range(e.coins)
              /\ pool.quote.address \in Range(e.coins) )
            => /\ e.i # e.j
               /\ e.coins[e.i + 1] = pool.base.address
               /\ e.coins[e.j + 1] = pool.quote.address

(***************************************************************************)
(* Properties of the rate limiter.                                         *)
(***************************************************************************)
Ladder == <<1000, 2000, 4000, 8000, 16000>>
IsPrefix(a, b) == Len(a) <= Len(b) /\ a = SubSeq(b, 1, Len(a))

\* C16: the per-window request counter never exceeds 5, and six consecutive
\* invocations of underlying calls never fit into one second, so a call beyond
\* the capacity of a window starts only after the window has rolled over.
C16_WindowCapacity ==
    /\ requestCount <= 5
    /\ Len(log) = 6 => log[6] - log[1] >= 1000
    /\ \A k \in 1..(Len(log) - 1) : log[k] <= log[k + 1]

\* the fifth request of a window has settled and further calls are queued
C16_Witness ==
    /\ requestCount = 5
    /\ lpc = "timer"
    /\ requestQueue # <<>>
    /\ Len(log) >= 5
    /\ log[Len(log)] - log[Len(log) - 4] < 1000

\* C17: on rate-limit signals the call is retried after waits of 1s, 2s, 4s, 8s,
\* 16s in that order and is invoked at most 6 times; a signal on the sixth
\* invocation is surfaced to the caller, a retry that succeeds resolves it.
C17_BackoffLadder ==
    /\ IsPrefix(cur.waits, Ladder)
    /\ IsPrefix(last.waits, Ladder)
    /\ Len(cur.outcomes) <= 5
    /\ Len(last.outcomes) <= 6
    /\ last.status # "none" =>
          LET n == Len(last.outcomes)
          IN  /\ Len(last.waits) = n - 1
              /\ \A k \in 1..(n - 1) : last.outcomes[k] = "rate_limit"
              /\ last.outcomes[n] = "rate_limit"
                    => (n = 6 /\ last.status = "rejected"
                              /\ last.error = "RATE_LIMIT_EXCEEDED")
              /\ last.outcomes[n] = "ok" => (last.status = "resolved" /\ last.error = NoError)

\* six signals in a row: the whole ladder was waited, then the error is surfaced
C17_Witness ==
    /\ last.status = "rejected"
    /\ last.error = "RATE_LIMIT_EXCEEDED"
    /\ last.waits = Ladder
    /\ Len(last.outcomes) = 6

C19_BurstCompletes ==
    /\ [](/\ Len(cur.outcomes) <= 5
          /\ Len(last.outcomes) <= 6
          /\ settled = 20 => last.settledAt - firstInvoke >= 3000)
    /\ <>(settled = 20)

\* the tightest schedule: no signal, the last call settles 3.8 s after the first start
C19_Witness ==
    /\ settled = 20
    /\ requestQueue = <<>>
    /\ last.id = 20
    /\ last.settledAt - firstInvoke = 3800

\* C20: a call that never responds is ended: every call inside executeWithRetry
\* is settled in the end and the calls queued behind it are started.
C20_StuckCallEnds ==
    /\ (cur.id # 0) ~> (cur.id = 0)
    /\ (requestQueue # <<>>) ~> (requestQueue = <<>>)

\* C21: calls are dispatched in the order of their submission, whatever failed or
\* was retried before: the call in progress is the oldest unsettled one, the
\* queue holds the later ones in the order of their execute() calls, and the
\* promise settled last is that of the call just finished, settled with the
\* outcome of its own last invocation.
C21_FifoDispatch ==
    LET dispatched == settled + (IF cur.id # 0 THEN 1 ELSE 0)
    IN  /\ cur.id # 0 => cur.id = settled + 1
        /\ dispatched + Len(requestQueue) = issued
        /\ \A k \in DOMAIN requestQueue : requestQueue[k] = dispatched + k
        /\ last.status # "none" =>
              /\ last.id = settled
              /\ (last.status = "resolved") = (last.outcomes[Len(last.outcomes)] = "ok")

\* the first call was rejected, the second is being retried, the third waits
C21_Witness ==
    /\ last.id = 1
    /\ last.status = "rejected"
    /\ cur.id = 2
    /\ cur.attempt > 0
    /\ requestQueue = <<3>>

(***************************************************************************)
(* Properties of the calls, logs and amounts of the protocol quoters.      *)
(***************************************************************************)
\* C22: every contract call a quoter sends to the node during a simulation goes
\* through the shared rate limiter; no quoter calls the node directly.
C22_AllCallsThroughExecutor ==
    \A k \in DOMAIN frame.calls : frame.calls[k].executor

\* C23: in the v3 quoter a pool whose liquidity reads as zero makes the quote
\* fail (success = false) and no call to the quoting contract follows.
C23_ZeroLiquidityIsHardFailure ==
    (frame.tick # <<>> /\ frame.tick[1].liquidity = Zero)
        => /\ ~quotes[Len(quotes)].success
           /\ \A k \in DOMAIN frame.calls : frame.calls[k].method # "quoteExactInputSingle"

\* C24: when get_dy answers more than 1000 times the decimal-adjusted 1:1
\* conversion of the input, getCurveQuote returns the decimal-adjusted 1:1
\* amount (the input scaled by 10^(quoteDecimals - baseDecimals), for a negative
\* difference too), and what it returns never exceeds the 1000x bound.
C24_CurveSanityBound ==
    (frame.indices # <<>> /\ ~frame.indices[1].get_dy.threw)
        => LET pool == pools[current]
               decimalDiff == pool.quote.decimals - pool.base.decimals
               amountOut == frame.indices[1].get_dy.amount
               returned == quotes[Len(quotes)].outputAmount
               \* x > 1000 * inputAmount * 10^decimalDiff
               Exceeds(x) ==
                   IF decimalDiff >= 0
                   THEN BigLT(Big(0, inputAmount * Pow10(decimalDiff) * 1000), x)
                   ELSE BigLT(Big(0, inputAmount * 1000), BigMul(x, Pow10(-decimalDiff)))
           IN  /\ Exceeds(amountOut)
                     => returned = Big(0, DecimalAdjusted(inputAmount, decimalDiff))
               /\ ~Exceeds(returned)

\* C25: the outputAmount of an aggregator quote is the headline buyAmount minus
\* the aggregator's own fee, so never more than the headline amount; without a
\* fee, or with the fee "0", it is the headline amount.
C25_ZeroXFeeNettedOut ==
    (frame.zeroXResponse # <<>> /\ quotes[Len(quotes)].success)
        => LET response == frame.zeroXResponse[1]
               outputAmount == quotes[Len(quotes)].outputAmount
           IN  /\ BigLE(outputAmount, response.buyAmount)
               /\ IF response.zeroExFee = <<>> \/ response.zeroExFee[1] = Zero
                  THEN outputAmount = response.buyAmount
                  ELSE BigAdd(outputAmount, response.zeroExFee[1]) = response.buyAmount

\* (output - worst) / worst x 100 clamped to [0, 1000], and exactly 0 when the
\* difference is below 0.01 % of the worst output
AdvantageOverWorst(currentOutput, worstOutput) ==
    LET diff == RoundToDouble(BigSub(currentOutput, worstOutput))
        raw == Ratio(BigMul(diff, 100), worstOutput)
    IN  IF BigLT(BigMul(diff, 10000), worstOutput) THEN Ratio(Zero, Big(0, 1))
        ELSE IF BigLT(BigMul(worstOutput, 1000), raw.num) THEN Ratio(Big(0, 1000), Big(0, 1))
        ELSE raw

\* C26: every priceAdvantage is (output - worst) / worst x 100 clamped to
\* [0, 1000], snapped to 0 only when the difference to the worst quote is below
\* 0.01 % of the worst quote, whatever the best quote of the run is.
C26_AdvantageRelativeToWorst ==
    Done =>
        \A i \in DOMAIN rankings :
            rankings[i].priceAdvantage =
                AdvantageOverWorst(parseFloat(rankings[i].quote.outputAmount),
                                   parseFloat(rankings[Len(rankings)].quote.outputAmount))

\* C27: a Fluid strategy that reads a revert as its return value yields an
\* amount only when the payload is the expected one: the swap simulation only
\* after a FluidDexSwapResult revert of swapIn, the price decode only for the
\* price payload; after any other outcome the strategy fails without an amount.
C27_OnlyExpectedRevertsSucceed ==
    \A k \in DOMAIN frame.strategies :
        LET attempt == frame.strategies[k]
            answers == frame.reverts[1]
        IN  /\ (attempt.strategy = DirectSimulation /\ ~attempt.result.threw)
                  => answers.swap = "FluidDexSwapResult"
            /\ (attempt.strategy \in {DirectSimulation, ReserveBased} /\ ~attempt.result.threw)
                  => answers.prices = "prices"

\* the method field that names a strategy
MethodOf(strategy) ==
    CASE strategy = DirectSimulation -> "direct_simulation"
      [] strategy = ReserveBased -> "live_price_calculation"
      [] OTHER -> "estimation_fallback"

\* C28: every strategy attempt of a getFluidQuote call, successful or failed,
\* emits exactly one log record whose method names the strategy that ran and
\* whose success flag tells how it ended; the record of the strategy whose
\* result is returned is a success record with the returned output.
C28_EveryAttemptLogged ==
    \A k \in DOMAIN frame.strategies :
        LET attempt == frame.strategies[k]
            From(record) == record.strategy = attempt.strategy
            records == SelectSeq(frame.logs, From)
        IN  /\ Len(records) = 1
            /\ records[1].method = MethodOf(attempt.strategy)
            /\ records[1].success = ~attempt.result.threw
            /\ k = Len(frame.strategies)
                  => /\ records[1].success
                     /\ records[1].outputAmount = quotes[Len(quotes)].outputAmount

(***************************************************************************)
(* Serialisation and progress of the rate limiter.                         *)
(***************************************************************************)
\* C29: calls are serialised: the processing flag is set exactly while the one
\* processing loop runs, and a call is started only when no other call is in
\* progress, that is neither running nor waiting in a backoff.
C29_OneCallAtATime ==
    /\ [](processing <=> lpc # "idle")
    /\ [](cur.id # 0 <=> lpc \in {"request", "backoff", "stuck"})
    /\ [][(cur'.id # cur.id /\ cur'.id # 0) => (cur.id = 0 /\ lpc \in {"idle", "timer"})]_vars

\* a call is waiting in a backoff while another submitted call is queued
C29_Witness ==
    /\ lpc = "backoff"
    /\ cur.attempt > 0
    /\ requestQueue # <<>>
    /\ processing

\* C30: when every invocation of an underlying call settles, every submitted
\* call is dispatched and its promise settled in the end, whatever failed before
\* and whenever it was submitted; an idle limiter has an empty queue.
C30_NoCallStranded ==
    /\ [](~processing => (requestQueue = <<>> /\ cur.id = 0))
    /\ \A i \in 1..MaxCalls : (issued >= i) ~> (settled >= i)

\* the loop has ended, a later submission has started it again and has been
\* settled, and the loop has ended once more
C30_Witness ==
    /\ ~processing
    /\ settled = 2
    /\ last.id = 2
    /\ last.waits = <<>>
    /\ Len(log) = 2
    /\ log[2] - log[1] >= 2 * RequestDelay

====
